---- MODULE Spec2Model ----
(***************************************************************************)
(* Model of the shutdown coordinator of package httpsrv: runServer (the    *)
(* variant that joins errors), its serve goroutine, the execution scope    *)
(* and the senders on the escalation ("shutdown") channel.                 *)
(*                                                                         *)
(* Spec    runServer called with arbitrary start and stop functions.       *)
(* SpecRun Run: configuration, the http.Server it starts and stops, the    *)
(*         request handlers and their panics, and a clock.                 *)
(* LiveRun SpecRun with the fairness of the Go scheduler.                  *)
(* SpecLog runServer of server.go, which logs the errors after the first.  *)
(* SpecSig ListenForQuitSignal.                                            *)
(* SpecDelay, LiveDelay  delayedCancel of the sddelay example, with Run.   *)
(*                                                                         *)
(* Go errors are modelled as trees:                                        *)
(*   [k |-> "nil"]                      the nil error                      *)
(*   [k |-> "leaf", id |-> s]           an error without Unwrap            *)
(*   [k |-> "esc",  n  |-> h]           the value sent by sender h         *)
(*   [k |-> "wrap", msg |-> s, err |-> e]   fmt.Errorf(s + ": %w", e)      *)
(*   [k |-> "join", errs |-> <<e1, e2>>]    errors.Join(e1, e2)            *)
(* Structural equality stands for Go's == on error values: every error of  *)
(* a run is created once, so equal structure means the same value.         *)
(***************************************************************************)
EXTENDS Integers, Sequences, FiniteSets, TLC

\* number of goroutines that may send on the escalation channel
NumHandlers == 2

\* the largest shutdown timeout a configuration carries
MaxTimeout == 1

\* the last instant of the clock
MaxTime == 2

Handlers == 1..NumHandlers

Threads == {"main", "serve"}

----------------------------------------------------------------------------
\* error values

Nil == [k |-> "nil"]

ErrServerClosed == [k |-> "leaf", id |-> "http: Server closed"]

ContextCanceled == [k |-> "leaf", id |-> "context canceled"]

ErrStart == [k |-> "leaf", id |-> "error from start"]

ErrStop == [k |-> "leaf", id |-> "error from stop"]

\* context.DeadlineExceeded
DeadlineExceeded == [k |-> "leaf", id |-> "context deadline exceeded"]

\* http.ErrAbortHandler
ErrAbortHandler == [k |-> "leaf", id |-> "net/http: abort Handler"]

\* the error net.Listen returns when the address cannot be bound
ErrListen == [k |-> "leaf", id |-> "listen tcp: address already in use"]

\* a cause handed to the cancel function of a context.WithCancelCause scope
ErrCause == [k |-> "leaf", id |-> "custom cause"]

errUnassignedAddr == [k |-> "leaf", id |-> "address to listen to is not assigned"]

errUnassignedHandler == [k |-> "leaf", id |-> "misconfigured http server, no handlers attached"]

ExitMsg == "http server exited with error"

StopMsg == "stopping http server"

\* the error sender h puts on the escalation channel
EscErr(h) == [k |-> "esc", n |-> h]

\* fmt.Errorf(msg + ": %w", e): wraps a non-nil e; a nil operand is not an
\* error, so the verb is rendered as %!w(<nil>) and nothing is wrapped
Errorf(msg, e) ==
    IF e = Nil THEN [k |-> "leaf", id |-> msg \o ": %!w(<nil>)"]
    ELSE [k |-> "wrap", msg |-> msg, err |-> e]

\* errors.Join(a, b): nil operands are discarded, nil when none is left
Join(a, b) ==
    LET es == SelectSeq(<<a, b>>, LAMBDA e : e # Nil)
    IN  IF es = <<>> THEN Nil ELSE [k |-> "join", errs |-> es]

RECURSIVE Is(_, _)
\* errors.Is(err, target)
Is(err, target) ==
    IF err = Nil \/ target = Nil THEN err = target
    ELSE IF err = target THEN TRUE
    ELSE IF err.k = "wrap" THEN Is(err.err, target)
    ELSE IF err.k = "join" THEN \E i \in DOMAIN err.errs : Is(err.errs[i], target)
    ELSE FALSE

\* values the start function may return
StartRets == {ErrServerClosed, Nil, ErrStart, Errorf("serve", ErrServerClosed)}

\* values the stop function may return
StopRets == {Nil, ErrStop}

----------------------------------------------------------------------------
VARIABLES
    pc,           \* pc[t]: position of the coordinator ("main") and of the serve goroutine
    arg,          \* arg[t]: argument of the setReturnErr call thread t is in
    ret,          \* ret[t]: where thread t continues after setReturnErr
    m,            \* holder of the mutex m, or "none"
    rerr,         \* the named result rerr
    serveQuit,    \* TRUE once the channel serveQuit is closed
    ctxDone,      \* TRUE once ctx is cancelled
    startRet,     \* what start returns
    stopRet,      \* what stop returns
    shutdown,     \* "nil" or "chan": the escalation channel passed in
    hpc,          \* hpc[h]: position of sender h
    recv,         \* the value received from the escalation channel
    arm,          \* the arm the select took
    stopCalls,    \* number of invocations of stop
    recorded,     \* the arguments of the setReturnErr calls, in order
    startRetCtx,  \* ctx was cancelled when start returned
    startRetStop, \* stop had been invoked when start returned
    result,       \* the value runServer or Run returned
    ctxCause,     \* the cause the caller cancels ctx with, Nil for a plain cancel()
    cfg,          \* the serverConf Run builds from its parameters
    installed,    \* TRUE once installDieOnPanicHandler has wrapped srv.Handler
    lopen,        \* TRUE once cfg.listener() has returned a listener
    listenFails,  \* net.Listen on srv.Addr fails
    stopKind,     \* the closure stopFunc returned: "Close" or "Shutdown"
    srvState,     \* the http.Server: "new", "serving" or "closed"
    srvCalls,     \* the calls of srv.Close and srv.Shutdown, <<caller, method>>
    stopPc,       \* position inside the stop closure
    deadline,     \* the deadline of the context the stop closure creates
    pv,           \* pv[h]: the value handler h panicked with
    now,          \* the clock
    logged,       \* the messages passed to logErr (runServer of server.go)
    qpc,          \* position of ListenForQuitSignal
    qsig,         \* its sig parameter
    qchan,        \* the content of its channel c (capacity 1), 0 when empty
    qseen,        \* the signals relayed to c so far
    qres,         \* the value ListenForQuitSignal returned
    inDone,       \* TRUE once the input context of delayedCancel is cancelled
    dpc,          \* position of the goroutine of delayedCancel
    delay,        \* the delay parameter of delayedCancel
    dwake         \* the instant at which its time.Sleep ends

\* the state of ListenForQuitSignal and of delayedCancel
utilVars == <<qpc, qsig, qchan, qseen, qres, inDone, dpc, delay, dwake>>

\* the state of Run around runServer, the log of the variant that logs, and
\* the state of the utilities
runVars == <<ctxCause, cfg, installed, lopen, listenFails, stopKind, srvState, srvCalls,
             stopPc, deadline, pv, now, logged, utilVars>>

vars == <<pc, arg, ret, m, rerr, serveQuit, ctxDone, startRet, stopRet,
          shutdown, hpc, recv, arm, stopCalls, recorded, startRetCtx,
          startRetStop, result, runVars>>

\* the causes a caller may cancel the scope with
Causes == {Nil, ErrCause}

\* the shutdown timeouts a caller may configure
Timeouts == -1..MaxTimeout

\* serverConf as left by the parameters of Run: whether srv.Handler is
\* assigned, whether srv.Addr is non-empty, whether a Listener was given
Configs == [handler : BOOLEAN, addr : BOOLEAN, l : BOOLEAN,
            shutdownTO : Timeouts, dieOnPanic : BOOLEAN]

\* the configuration that stands in when runServer is called directly
BareCfg == [handler |-> TRUE, addr |-> TRUE, l |-> FALSE, shutdownTO |-> 0,
            dieOnPanic |-> FALSE]

\* nothing of Run has happened yet
RunIdle ==
    /\ installed = FALSE
    /\ lopen = FALSE
    /\ stopKind = "none"
    /\ srvState = "new"
    /\ srvCalls = <<>>
    /\ stopPc = "idle"
    /\ deadline = -1
    /\ pv = [h \in Handlers |-> Nil]
    /\ now = 0
    /\ logged = <<>>

\* the empty channel of ListenForQuitSignal
NoSignal == 0

\* ListenForQuitSignal is not called
SigIdle ==
    /\ qpc = "idle"
    /\ qsig = {}
    /\ qchan = NoSignal
    /\ qseen = {}
    /\ qres = Nil

\* delayedCancel is not called
DelayIdle ==
    /\ inDone = FALSE
    /\ dpc = "idle"
    /\ delay = 0
    /\ dwake = -1

Init ==
    /\ pc = [t \in Threads |-> IF t = "main" THEN "go" ELSE "idle"]
    /\ arg = [t \in Threads |-> Nil]
    /\ ret = [t \in Threads |-> "none"]
    /\ m = "none"
    /\ rerr = Nil
    /\ serveQuit = FALSE
    /\ ctxDone = FALSE
    /\ startRet \in StartRets
    /\ stopRet \in StopRets
    /\ shutdown \in {"nil", "chan"}
    /\ hpc = [h \in Handlers |-> "idle"]
    /\ recv = Nil
    /\ arm = "none"
    /\ stopCalls = 0
    /\ recorded = <<>>
    /\ startRetCtx = FALSE
    /\ startRetStop = FALSE
    /\ result = Nil
    /\ ctxCause \in Causes
    /\ cfg = BareCfg
    /\ listenFails = FALSE
    /\ RunIdle
    /\ SigIdle
    /\ DelayIdle

----------------------------------------------------------------------------
\* setReturnErr

\* setReturnErr that keeps the first error and drops the later ones
SetReturnErrFirstOnly(old, err) ==
    IF old = Nil THEN err ELSE old

\* setReturnErr that replaces the error recorded before
SetReturnErrOverwrite(old, err) ==
    IF err # Nil THEN err ELSE old

\* setReturnErr that puts a later error in front of the earlier ones
SetReturnErrPrepend(old, err) ==
    IF old = Nil THEN err
    ELSE IF err # Nil THEN Join(err, old)
    ELSE old

\* the new value of rerr
SetReturnErr(old, err) ==
    IF old = Nil THEN err
    ELSE IF err # Nil THEN Join(old, err)
    ELSE old

\* thread t calls setReturnErr(err) and continues at next
Call(t, err, next) ==
    /\ pc' = [pc EXCEPT ![t] = "setReturnErr"]
    /\ arg' = [arg EXCEPT ![t] = err]
    /\ ret' = [ret EXCEPT ![t] = next]

\* setReturnErr entered without waiting for the mutex
SetReturnErrLockNoWait(t) ==
    /\ pc[t] = "setReturnErr"
    /\ m' = t
    /\ pc' = [pc EXCEPT ![t] = "locked"]
    /\ UNCHANGED <<arg, ret, rerr, serveQuit, ctxDone, startRet, stopRet,
                   shutdown, hpc, recv, arm, stopCalls, recorded,
                   startRetCtx, startRetStop, result>>
    /\ UNCHANGED runVars

\* m.Lock()
SetReturnErrLock(t) ==
    /\ pc[t] = "setReturnErr"
    /\ m = "none"
    /\ m' = t
    /\ pc' = [pc EXCEPT ![t] = "locked"]
    /\ UNCHANGED <<arg, ret, rerr, serveQuit, ctxDone, startRet, stopRet,
                   shutdown, hpc, recv, arm, stopCalls, recorded,
                   startRetCtx, startRetStop, result>>
    /\ UNCHANGED runVars

\* the body of setReturnErr and the deferred m.Unlock()
SetReturnErrBody(t) ==
    /\ pc[t] = "locked"
    /\ m = t
    /\ rerr' = SetReturnErr(rerr, arg[t])
    /\ recorded' = Append(recorded, arg[t])
    /\ m' = "none"
    /\ pc' = [pc EXCEPT ![t] = ret[t]]
    /\ UNCHANGED <<arg, ret, serveQuit, ctxDone, startRet, stopRet, shutdown,
                   hpc, recv, arm, stopCalls, startRetCtx, startRetStop,
                   result>>
    /\ UNCHANGED runVars

----------------------------------------------------------------------------
\* the serve goroutine

\* the test with errors.Is, which also accepts an error wrapping the sentinel
IsSentinelWrapped(e) == Is(e, ErrServerClosed)

\* the test of start's return value against the sentinel
IsSentinel(e) == e = ErrServerClosed

\* go func() { ... }()
Launch ==
    /\ pc["main"] = "go"
    /\ pc' = [pc EXCEPT !["main"] = "select", !["serve"] = "running"]
    /\ UNCHANGED <<arg, ret, m, rerr, serveQuit, ctxDone, startRet, stopRet,
                   shutdown, hpc, recv, arm, stopCalls, recorded,
                   startRetCtx, startRetStop, result>>
    /\ UNCHANGED runVars

\* start() returns and serveQuit is closed before the error is recorded
StartReturnsCloseFirst ==
    /\ pc["serve"] = "running"
    /\ startRetCtx' = ctxDone
    /\ startRetStop' = (stopCalls > 0)
    /\ serveQuit' = TRUE
    /\ IF IsSentinel(startRet)
         THEN /\ pc' = [pc EXCEPT !["serve"] = "done"]
              /\ UNCHANGED <<arg, ret>>
         ELSE Call("serve", Errorf(ExitMsg, startRet), "done")
    /\ UNCHANGED <<m, rerr, ctxDone, startRet, stopRet, shutdown,
                   hpc, recv, arm, stopCalls, recorded, result>>
    /\ UNCHANGED runVars

\* start() returns, at a moment of its own choosing
StartReturns ==
    /\ pc["serve"] = "running"
    /\ startRetCtx' = ctxDone
    /\ startRetStop' = (stopCalls > 0)
    /\ IF IsSentinel(startRet)
         THEN /\ pc' = [pc EXCEPT !["serve"] = "close"]
              /\ UNCHANGED <<arg, ret>>
         ELSE Call("serve", Errorf(ExitMsg, startRet), "close")
    /\ UNCHANGED <<m, rerr, serveQuit, ctxDone, startRet, stopRet, shutdown,
                   hpc, recv, arm, stopCalls, recorded, result>>
    /\ UNCHANGED runVars

\* the deferred close(serveQuit)
CloseServeQuit ==
    /\ pc["serve"] = "close"
    /\ serveQuit' = TRUE
    /\ pc' = [pc EXCEPT !["serve"] = "done"]
    /\ UNCHANGED <<arg, ret, m, rerr, ctxDone, startRet, stopRet, shutdown,
                   hpc, recv, arm, stopCalls, recorded, startRetCtx,
                   startRetStop, result>>
    /\ UNCHANGED runVars

----------------------------------------------------------------------------
\* the environment: the scope and the senders on the escalation channel

\* the caller cancels ctx
Cancel ==
    /\ ~ctxDone
    /\ ctxDone' = TRUE
    /\ UNCHANGED <<pc, arg, ret, m, rerr, serveQuit, startRet, stopRet,
                   shutdown, hpc, recv, arm, stopCalls, recorded,
                   startRetCtx, startRetStop, result>>
    /\ UNCHANGED runVars

\* sender h starts its send on the unbuffered channel and blocks in it
HandlerSend(h) ==
    /\ hpc[h] = "idle"
    /\ hpc' = [hpc EXCEPT ![h] = "sending"]
    /\ UNCHANGED <<pc, arg, ret, m, rerr, serveQuit, ctxDone, startRet,
                   stopRet, shutdown, recv, arm, stopCalls, recorded,
                   startRetCtx, startRetStop, result>>
    /\ UNCHANGED runVars

----------------------------------------------------------------------------
\* the coordinator

\* the completion arm going straight to the final wait
SelectServeQuitSkipStop ==
    /\ pc["main"] = "select"
    /\ serveQuit
    /\ arm' = "serveQuit"
    /\ pc' = [pc EXCEPT !["main"] = "wait"]
    /\ UNCHANGED <<arg, ret, m, rerr, serveQuit, ctxDone, startRet, stopRet,
                   shutdown, hpc, recv, stopCalls, recorded, startRetCtx,
                   startRetStop, result>>
    /\ UNCHANGED runVars

\* a select that does not wait: it goes on to stop() with no arm ready
SelectServeQuitNoWait ==
    /\ pc["main"] = "select"
    /\ arm' = "serveQuit"
    /\ pc' = [pc EXCEPT !["main"] = "stop"]
    /\ UNCHANGED <<arg, ret, m, rerr, serveQuit, ctxDone, startRet, stopRet,
                   shutdown, hpc, recv, stopCalls, recorded, startRetCtx,
                   startRetStop, result>>
    /\ UNCHANGED runVars

\* case <-serveQuit:
SelectServeQuit ==
    /\ pc["main"] = "select"
    /\ serveQuit
    /\ arm' = "serveQuit"
    /\ pc' = [pc EXCEPT !["main"] = "stop"]
    /\ UNCHANGED <<arg, ret, m, rerr, serveQuit, ctxDone, startRet, stopRet,
                   shutdown, hpc, recv, stopCalls, recorded, startRetCtx,
                   startRetStop, result>>
    /\ UNCHANGED runVars

\* context.Cause(ctx) of the cancelled scope
CtxCause == IF ctxCause = Nil THEN ContextCanceled ELSE ctxCause

\* the cancellation arm recording the cause of the scope instead of ctx.Err()
SelectCtxRecordsCause ==
    /\ pc["main"] = "select"
    /\ ctxDone
    /\ arm' = "ctx"
    /\ Call("main", CtxCause, "stop")
    /\ UNCHANGED <<m, rerr, serveQuit, ctxDone, startRet, stopRet, shutdown,
                   hpc, recv, stopCalls, recorded, startRetCtx, startRetStop,
                   result>>
    /\ UNCHANGED runVars

\* the cancellation arm also draining a pending escalation
SelectCtxAlsoReceives ==
    /\ pc["main"] = "select"
    /\ ctxDone
    /\ arm' = "ctx"
    /\ Call("main", ContextCanceled, "stop")
    /\ IF shutdown = "chan" /\ \E h \in Handlers : hpc[h] = "sending"
         THEN \E h \in Handlers :
                 /\ hpc[h] = "sending"
                 /\ hpc' = [hpc EXCEPT ![h] = "sent"]
                 /\ recv' = EscErr(h)
         ELSE UNCHANGED <<hpc, recv>>
    /\ UNCHANGED <<m, rerr, serveQuit, ctxDone, startRet, stopRet, shutdown,
                   stopCalls, recorded, startRetCtx, startRetStop, result>>
    /\ UNCHANGED runVars

\* the cancellation arm going straight to the final wait
SelectCtxSkipStop ==
    /\ pc["main"] = "select"
    /\ ctxDone
    /\ arm' = "ctx"
    /\ Call("main", ContextCanceled, "wait")
    /\ UNCHANGED <<m, rerr, serveQuit, ctxDone, startRet, stopRet, shutdown,
                   hpc, recv, stopCalls, recorded, startRetCtx, startRetStop,
                   result>>
    /\ UNCHANGED runVars

\* case <-ctx.Done(): setReturnErr(ctx.Err())
SelectCtx ==
    /\ pc["main"] = "select"
    /\ ctxDone
    /\ arm' = "ctx"
    /\ Call("main", ContextCanceled, "stop")
    /\ UNCHANGED <<m, rerr, serveQuit, ctxDone, startRet, stopRet, shutdown,
                   hpc, recv, stopCalls, recorded, startRetCtx, startRetStop,
                   result>>
    /\ UNCHANGED runVars

\* the escalation arm falling through to stop() instead of returning
SelectShutdownThenStop ==
    /\ pc["main"] = "select"
    /\ shutdown = "chan"
    /\ \E h \in Handlers :
         /\ hpc[h] = "sending"
         /\ hpc' = [hpc EXCEPT ![h] = "sent"]
         /\ recv' = EscErr(h)
         /\ Call("main", EscErr(h), "stop")
    /\ arm' = "shutdown"
    /\ UNCHANGED <<m, rerr, serveQuit, ctxDone, startRet, stopRet, shutdown,
                   stopCalls, recorded, startRetCtx, startRetStop, result>>
    /\ UNCHANGED runVars

\* case err := <-shutdown: setReturnErr(err); a receive from a nil channel
\* is never ready
SelectShutdown ==
    /\ pc["main"] = "select"
    /\ shutdown = "chan"
    /\ \E h \in Handlers :
         /\ hpc[h] = "sending"
         /\ hpc' = [hpc EXCEPT ![h] = "sent"]
         /\ recv' = EscErr(h)
         /\ Call("main", EscErr(h), "waitQuit")
    /\ arm' = "shutdown"
    /\ UNCHANGED <<m, rerr, serveQuit, ctxDone, startRet, stopRet, shutdown,
                   stopCalls, recorded, startRetCtx, startRetStop, result>>
    /\ UNCHANGED runVars

\* <-serveQuit; return (in the escalation arm)
ShutdownWait ==
    /\ pc["main"] = "waitQuit"
    /\ serveQuit
    /\ result' = rerr
    /\ pc' = [pc EXCEPT !["main"] = "returned"]
    /\ UNCHANGED <<arg, ret, m, rerr, serveQuit, ctxDone, startRet, stopRet,
                   shutdown, hpc, recv, arm, stopCalls, recorded,
                   startRetCtx, startRetStop>>
    /\ UNCHANGED runVars

\* stop() is called
StopInvoke ==
    /\ pc["main"] = "stop"
    /\ stopCalls' = stopCalls + 1
    /\ pc' = [pc EXCEPT !["main"] = "stopping"]
    /\ UNCHANGED <<arg, ret, m, rerr, serveQuit, ctxDone, startRet, stopRet,
                   shutdown, hpc, recv, arm, recorded, startRetCtx,
                   startRetStop, result>>
    /\ UNCHANGED runVars

\* stop() returns and its error is dropped
StopReturnSwallow ==
    /\ pc["main"] = "stopping"
    /\ pc' = [pc EXCEPT !["main"] = "wait"]
    /\ UNCHANGED <<arg, ret, m, rerr, serveQuit, ctxDone, startRet, stopRet,
                   shutdown, hpc, recv, arm, stopCalls, recorded,
                   startRetCtx, startRetStop, result>>
    /\ UNCHANGED runVars

\* stop() returns and is called again when it failed
StopReturnRetry ==
    /\ pc["main"] = "stopping"
    /\ IF stopRet # Nil
         THEN Call("main", Errorf(StopMsg, stopRet),
                   IF stopCalls < 2 THEN "stop" ELSE "wait")
         ELSE /\ pc' = [pc EXCEPT !["main"] = "wait"]
              /\ UNCHANGED <<arg, ret>>
    /\ UNCHANGED <<m, rerr, serveQuit, ctxDone, startRet, stopRet, shutdown,
                   hpc, recv, arm, stopCalls, recorded, startRetCtx,
                   startRetStop, result>>
    /\ UNCHANGED runVars

\* stop() returns and its result is recorded without the nil test
StopReturnAlwaysRecords ==
    /\ pc["main"] = "stopping"
    /\ Call("main", Errorf(StopMsg, stopRet), "wait")
    /\ UNCHANGED <<m, rerr, serveQuit, ctxDone, startRet, stopRet, shutdown,
                   hpc, recv, arm, stopCalls, recorded, startRetCtx,
                   startRetStop, result>>
    /\ UNCHANGED runVars

\* stop() returns: if err != nil { setReturnErr(...) }
StopReturn ==
    /\ pc["main"] = "stopping"
    /\ IF stopRet # Nil
         THEN Call("main", Errorf(StopMsg, stopRet), "wait")
         ELSE /\ pc' = [pc EXCEPT !["main"] = "wait"]
              /\ UNCHANGED <<arg, ret>>
    /\ UNCHANGED <<m, rerr, serveQuit, ctxDone, startRet, stopRet, shutdown,
                   hpc, recv, arm, stopCalls, recorded, startRetCtx,
                   startRetStop, result>>
    /\ UNCHANGED runVars

\* the return without the final receive from serveQuit
FinalWaitNoWait ==
    /\ pc["main"] = "wait"
    /\ result' = rerr
    /\ pc' = [pc EXCEPT !["main"] = "returned"]
    /\ UNCHANGED <<arg, ret, m, rerr, serveQuit, ctxDone, startRet, stopRet,
                   shutdown, hpc, recv, arm, stopCalls, recorded,
                   startRetCtx, startRetStop>>
    /\ UNCHANGED runVars

\* <-serveQuit; return (at the end of runServer)
FinalWait ==
    /\ pc["main"] = "wait"
    /\ serveQuit
    /\ result' = rerr
    /\ pc' = [pc EXCEPT !["main"] = "returned"]
    /\ UNCHANGED <<arg, ret, m, rerr, serveQuit, ctxDone, startRet, stopRet,
                   shutdown, hpc, recv, arm, stopCalls, recorded,
                   startRetCtx, startRetStop>>
    /\ UNCHANGED runVars

----------------------------------------------------------------------------
Next ==
    \/ Launch
    \/ StartReturns
    \/ CloseServeQuit
    \/ \E t \in Threads : SetReturnErrLock(t)
    \/ \E t \in Threads : SetReturnErrBody(t)
    \/ Cancel
    \/ \E h \in Handlers : HandlerSend(h)
    \/ SelectServeQuit
    \/ SelectCtx
    \/ SelectShutdown
    \/ ShutdownWait
    \/ StopInvoke
    \/ StopReturn
    \/ FinalWait

Spec == Init /\ [][Next]_vars

----------------------------------------------------------------------------
\* Run: configuration, the server and its request handlers

\* the variables of runServer except hpc
coordVars == <<pc, arg, ret, m, rerr, serveQuit, ctxDone, startRet, stopRet,
               shutdown, recv, arm, stopCalls, recorded, startRetCtx,
               startRetStop, result>>

\* a panic value that is not an error
PanicStr == [k |-> "str", id |-> "foobar"]

\* an error value wrapping http.ErrAbortHandler
WrappedAbort == Errorf("request aborted", ErrAbortHandler)

\* the values a request handler may panic with
PanicValues == {PanicStr, ErrAbortHandler, WrappedAbort}

\* r.(error): the panic value is an error
IsError(v) == v.k \in {"leaf", "wrap", "join", "esc"}

\* a test that takes no panic for http.ErrAbortHandler
IsAbortPanicNever(v) == FALSE

\* the test the recover function applies before it escalates
IsAbortPanic(v) == IsError(v) /\ v = ErrAbortHandler

\* validate without the test of the address
ValidateHandlerOnly(c) ==
    IF ~c.handler THEN errUnassignedHandler ELSE Nil

\* validate testing the address before the handler
ValidateAddrFirst(c) ==
    IF ~c.addr /\ ~c.l THEN errUnassignedAddr
    ELSE IF ~c.handler THEN errUnassignedHandler
    ELSE Nil

\* cfg.validate()
Validate(c) ==
    IF ~c.handler THEN errUnassignedHandler
    ELSE IF ~c.addr /\ ~c.l THEN errUnassignedAddr
    ELSE Nil

\* stopFunc taking a zero timeout for a graceful shutdown
StopFuncZeroGraceful(c) == IF c.shutdownTO < 0 THEN "Close" ELSE "Shutdown"

\* cfg.stopFunc(): which method of the server the stop closure calls
StopFunc(c) == IF c.shutdownTO <= 0 THEN "Close" ELSE "Shutdown"

\* the error of the start closure when cfg.listener() failed
ListenErr == Errorf("failed to create listener", ErrListen)

InitRun ==
    /\ pc = [t \in Threads |-> IF t = "main" THEN "run" ELSE "idle"]
    /\ arg = [t \in Threads |-> Nil]
    /\ ret = [t \in Threads |-> "none"]
    /\ m = "none"
    /\ rerr = Nil
    /\ serveQuit = FALSE
    /\ ctxDone = FALSE
    /\ startRet = Nil
    /\ stopRet = Nil
    /\ shutdown = "nil"
    /\ hpc = [h \in Handlers |-> "idle"]
    /\ recv = Nil
    /\ arm = "none"
    /\ stopCalls = 0
    /\ recorded = <<>>
    /\ startRetCtx = FALSE
    /\ startRetStop = FALSE
    /\ result = Nil
    /\ ctxCause = Nil
    /\ cfg \in Configs
    /\ listenFails \in BOOLEAN
    /\ cfg.l => ~listenFails
    /\ RunIdle
    /\ SigIdle
    /\ DelayIdle

\* if err := cfg.validate(); err != nil { return err }
RunReject ==
    /\ pc["main"] = "run"
    /\ Validate(cfg) # Nil
    /\ result' = Validate(cfg)
    /\ pc' = [pc EXCEPT !["main"] = "returned"]
    /\ UNCHANGED <<arg, ret, m, rerr, serveQuit, ctxDone, startRet, stopRet,
                   shutdown, hpc, recv, arm, stopCalls, recorded,
                   startRetCtx, startRetStop>>
    /\ UNCHANGED runVars

\* Run installing the panic handler whatever the configuration says
RunSetupAlwaysInstalls ==
    /\ pc["main"] = "run"
    /\ Validate(cfg) = Nil
    /\ installed' = TRUE
    /\ shutdown' = "chan"
    /\ lopen' = (cfg.l \/ ~listenFails)
    /\ startRet' = IF cfg.l \/ ~listenFails THEN ErrServerClosed ELSE ListenErr
    /\ stopKind' = StopFunc(cfg)
    /\ pc' = [pc EXCEPT !["main"] = "go"]
    /\ UNCHANGED <<arg, ret, m, rerr, serveQuit, ctxDone, stopRet, hpc, recv,
                   arm, stopCalls, recorded, startRetCtx, startRetStop,
                   result>>
    /\ UNCHANGED <<utilVars, logged, ctxCause, cfg, listenFails, srvState, srvCalls, stopPc,
                   deadline, pv, now>>

\* the configuration is valid: installDieOnPanicHandler if asked for,
\* cfg.startFunc() with cfg.listener(), cfg.stopFunc(), then runServer
RunSetup ==
    /\ pc["main"] = "run"
    /\ Validate(cfg) = Nil
    /\ installed' = cfg.dieOnPanic
    /\ shutdown' = IF cfg.dieOnPanic THEN "chan" ELSE "nil"
    /\ lopen' = (cfg.l \/ ~listenFails)
    /\ startRet' = IF cfg.l \/ ~listenFails THEN ErrServerClosed ELSE ListenErr
    /\ stopKind' = StopFunc(cfg)
    /\ pc' = [pc EXCEPT !["main"] = "go"]
    /\ UNCHANGED <<arg, ret, m, rerr, serveQuit, ctxDone, stopRet, hpc, recv,
                   arm, stopCalls, recorded, startRetCtx, startRetStop,
                   result>>
    /\ UNCHANGED <<utilVars, logged, ctxCause, cfg, listenFails, srvState, srvCalls, stopPc,
                   deadline, pv, now>>

\* srv.Serve(l) starts to accept connections
ServeBegin ==
    /\ pc["serve"] = "running"
    /\ lopen
    /\ srvState = "new"
    /\ srvState' = "serving"
    /\ UNCHANGED <<coordVars, hpc>>
    /\ UNCHANGED <<utilVars, logged, ctxCause, cfg, installed, lopen, listenFails, stopKind,
                   srvCalls, stopPc, deadline, pv, now>>

\* the start closure returns: at once when there is no listener, and from
\* srv.Serve once the server was closed or shut down (a listener that fails
\* while the server accepts is outside this model)
ServeReturns ==
    /\ ~lopen \/ srvState = "closed"
    /\ StartReturns

\* a request arrives and its handler starts
Request(h) ==
    /\ srvState = "serving"
    /\ hpc[h] = "idle"
    /\ hpc' = [hpc EXCEPT ![h] = "busy"]
    /\ UNCHANGED coordVars
    /\ UNCHANGED runVars

\* next.ServeHTTP(w, r) returns
HandlerReturn(h) ==
    /\ hpc[h] = "busy"
    /\ hpc' = [hpc EXCEPT ![h] = "done"]
    /\ UNCHANGED coordVars
    /\ UNCHANGED runVars

\* next.ServeHTTP(w, r) panics with a value v and the panic unwinds: without
\* the wrapper it reaches net/http, which ends the connection; the wrapper's
\* deferred function recovers it, returns for http.ErrAbortHandler and
\* otherwise starts the send on the channel, in which it blocks
HandlerPanic(h) ==
    /\ hpc[h] = "busy"
    /\ \E v \in PanicValues :
          /\ pv' = [pv EXCEPT ![h] = v]
          /\ hpc' = [hpc EXCEPT ![h] =
                        IF ~installed THEN "crashed"
                        ELSE IF IsAbortPanic(v) THEN "aborted"
                        ELSE "sending"]
    /\ UNCHANGED coordVars
    /\ UNCHANGED <<utilVars, logged, ctxCause, cfg, installed, lopen, listenFails, stopKind,
                   srvState, srvCalls, stopPc, deadline, now>>

\* the recover function returning after the send without srv.Close()
HandlerCloseForgets(h) ==
    /\ hpc[h] = "sent"
    /\ hpc' = [hpc EXCEPT ![h] = "closed"]
    /\ UNCHANGED coordVars
    /\ UNCHANGED runVars

\* the recover function closing the server without waiting for its send to
\* be received
HandlerCloseUnsent(h) ==
    /\ hpc[h] \in {"sending", "sent"}
    /\ hpc' = [hpc EXCEPT ![h] = "closed"]
    /\ srvState' = "closed"
    /\ srvCalls' = Append(srvCalls, [by |-> "handler", m |-> "Close"])
    /\ UNCHANGED coordVars
    /\ UNCHANGED <<utilVars, logged, ctxCause, cfg, installed, lopen, listenFails, stopKind,
                   stopPc, deadline, pv, now>>

\* srv.Close() in the recover function, after the send completed
HandlerClose(h) ==
    /\ hpc[h] = "sent"
    /\ hpc' = [hpc EXCEPT ![h] = "closed"]
    /\ srvState' = "closed"
    /\ srvCalls' = Append(srvCalls, [by |-> "handler", m |-> "Close"])
    /\ UNCHANGED coordVars
    /\ UNCHANGED <<utilVars, logged, ctxCause, cfg, installed, lopen, listenFails, stopKind,
                   stopPc, deadline, pv, now>>

\* handler h keeps its connection active
Active(h) == hpc[h] \in {"busy", "sending", "sent"}

\* a stop closure that returns without closing the server
StopCloseLeavesOpen ==
    /\ pc["main"] = "stopping"
    /\ stopPc = "idle"
    /\ stopKind = "Close"
    /\ srvCalls' = Append(srvCalls, [by |-> "stop", m |-> "Close"])
    /\ stopRet' = Nil
    /\ stopPc' = "done"
    /\ UNCHANGED <<pc, arg, ret, m, rerr, serveQuit, ctxDone, startRet,
                   shutdown, hpc, recv, arm, stopCalls, recorded,
                   startRetCtx, startRetStop, result>>
    /\ UNCHANGED <<utilVars, logged, ctxCause, cfg, installed, lopen, listenFails, stopKind,
                   srvState, deadline, pv, now>>

\* the stop closure of a configuration without timeout: srv.Close()
StopClose ==
    /\ pc["main"] = "stopping"
    /\ stopPc = "idle"
    /\ stopKind = "Close"
    /\ srvState' = "closed"
    /\ srvCalls' = Append(srvCalls, [by |-> "stop", m |-> "Close"])
    /\ stopRet' = Nil
    /\ stopPc' = "done"
    /\ UNCHANGED <<pc, arg, ret, m, rerr, serveQuit, ctxDone, startRet,
                   shutdown, hpc, recv, arm, stopCalls, recorded,
                   startRetCtx, startRetStop, result>>
    /\ UNCHANGED <<utilVars, logged, ctxCause, cfg, installed, lopen, listenFails, stopKind,
                   deadline, pv, now>>

\* the stop closure deriving its context from the scope of the run: a
\* cancelled scope leaves no time
ShutdownBeginFromScope ==
    /\ pc["main"] = "stopping"
    /\ stopPc = "idle"
    /\ stopKind = "Shutdown"
    /\ deadline' = IF ctxDone THEN now ELSE now + cfg.shutdownTO
    /\ srvState' = "closed"
    /\ srvCalls' = Append(srvCalls, [by |-> "stop", m |-> "Shutdown"])
    /\ stopPc' = "draining"
    /\ UNCHANGED <<coordVars, hpc>>
    /\ UNCHANGED <<utilVars, logged, ctxCause, cfg, installed, lopen, listenFails, stopKind,
                   pv, now>>

\* the stop closure with a timeout: context.WithTimeout(context.Background(),
\* cfg.shutdownTO), then srv.Shutdown(ctx) stops the listeners
ShutdownBegin ==
    /\ pc["main"] = "stopping"
    /\ stopPc = "idle"
    /\ stopKind = "Shutdown"
    /\ deadline' = now + cfg.shutdownTO
    /\ srvState' = "closed"
    /\ srvCalls' = Append(srvCalls, [by |-> "stop", m |-> "Shutdown"])
    /\ stopPc' = "draining"
    /\ UNCHANGED <<coordVars, hpc>>
    /\ UNCHANGED <<utilVars, logged, ctxCause, cfg, installed, lopen, listenFails, stopKind,
                   pv, now>>

\* srv.Shutdown finds every connection idle and returns nil
ShutdownIdle ==
    /\ stopPc = "draining"
    /\ \A h \in Handlers : ~Active(h)
    /\ stopRet' = Nil
    /\ stopPc' = "done"
    /\ UNCHANGED <<pc, arg, ret, m, rerr, serveQuit, ctxDone, startRet,
                   shutdown, hpc, recv, arm, stopCalls, recorded,
                   startRetCtx, startRetStop, result>>
    /\ UNCHANGED <<utilVars, logged, ctxCause, cfg, installed, lopen, listenFails, stopKind,
                   srvState, srvCalls, deadline, pv, now>>

\* srv.Shutdown giving up before its context expires
ShutdownTimeoutEarly ==
    /\ stopPc = "draining"
    /\ stopRet' = DeadlineExceeded
    /\ stopPc' = "done"
    /\ UNCHANGED <<pc, arg, ret, m, rerr, serveQuit, ctxDone, startRet,
                   shutdown, hpc, recv, arm, stopCalls, recorded,
                   startRetCtx, startRetStop, result>>
    /\ UNCHANGED <<utilVars, logged, ctxCause, cfg, installed, lopen, listenFails, stopKind,
                   srvState, srvCalls, deadline, pv, now>>

\* the context of srv.Shutdown expires and it returns ctx.Err()
ShutdownTimeout ==
    /\ stopPc = "draining"
    /\ now >= deadline
    /\ stopRet' = DeadlineExceeded
    /\ stopPc' = "done"
    /\ UNCHANGED <<pc, arg, ret, m, rerr, serveQuit, ctxDone, startRet,
                   shutdown, hpc, recv, arm, stopCalls, recorded,
                   startRetCtx, startRetStop, result>>
    /\ UNCHANGED <<utilVars, logged, ctxCause, cfg, installed, lopen, listenFails, stopKind,
                   srvState, srvCalls, deadline, pv, now>>

\* the stop closure returns to runServer
StopFuncReturns ==
    /\ stopPc = "done"
    /\ StopReturn

\* time passes. The clock is read by the stop closure only, so the time that
\* passed before it is accounted for when runServer is about to call stop;
\* after that the clock runs until the pending deadline
Tick ==
    /\ \/ pc["main"] = "stop" /\ now < MaxTime
       \/ stopPc = "draining" /\ now < deadline
    /\ now' = now + 1
    /\ UNCHANGED <<coordVars, hpc>>
    /\ UNCHANGED <<utilVars, logged, ctxCause, cfg, installed, lopen, listenFails, stopKind,
                   srvState, srvCalls, stopPc, deadline, pv>>

NextRun ==
    \/ RunReject
    \/ RunSetup
    \/ Launch
    \/ ServeBegin
    \/ ServeReturns
    \/ CloseServeQuit
    \/ \E t \in Threads : SetReturnErrLock(t)
    \/ \E t \in Threads : SetReturnErrBody(t)
    \/ Cancel
    \/ \E h \in Handlers : Request(h)
    \/ \E h \in Handlers : HandlerReturn(h)
    \/ \E h \in Handlers : HandlerPanic(h)
    \/ \E h \in Handlers : HandlerClose(h)
    \/ SelectServeQuit
    \/ SelectCtx
    \/ SelectShutdown
    \/ ShutdownWait
    \/ StopInvoke
    \/ StopClose
    \/ ShutdownBegin
    \/ ShutdownIdle
    \/ ShutdownTimeout
    \/ StopFuncReturns
    \/ FinalWait
    \/ Tick

SpecRun == InitRun /\ [][NextRun]_vars

\* the steps of the goroutine that called Run
MainStep ==
    \/ RunReject
    \/ RunSetup
    \/ Launch
    \/ SetReturnErrLock("main")
    \/ SetReturnErrBody("main")
    \/ SelectServeQuit
    \/ SelectCtx
    \/ SelectShutdown
    \/ ShutdownWait
    \/ StopInvoke
    \/ StopClose
    \/ ShutdownBegin
    \/ ShutdownIdle
    \/ ShutdownTimeout
    \/ StopFuncReturns
    \/ FinalWait

\* the steps of the serve goroutine
ServeStep ==
    \/ ServeBegin
    \/ ServeReturns
    \/ SetReturnErrLock("serve")
    \/ SetReturnErrBody("serve")
    \/ CloseServeQuit

\* the step of the recover function of handler h once its send completed
RecoverStep(h) == HandlerClose(h)

\* the Go scheduler runs every goroutine that can take a step, and time
\* passes; requests, panics and the cancellation are up to the environment
Fairness ==
    /\ WF_vars(MainStep)
    /\ WF_vars(ServeStep)
    /\ \A h \in Handlers : WF_vars(RecoverStep(h))
    /\ WF_vars(Tick)

\* the initial states of the liveness checks: Run without the Listener
\* option. A listener handed in behaves like an address on which net.Listen
\* succeeds, so no behaviour of the server is left out
InitLive == InitRun /\ ~cfg.l

LiveRun == InitLive /\ [][NextRun]_vars /\ Fairness

----------------------------------------------------------------------------
\* runServer of server.go: the variant that returns the first error and
\* logs the later ones. It has no escalation channel; its goroutine, its
\* select arms, its call of stop and its final wait are those above.

RECURSIVE ErrorText(_)
\* err.Error() of a non-nil error
ErrorText(e) ==
    IF e.k = "leaf" THEN e.id
    ELSE IF e.k = "wrap" THEN e.msg \o ": " \o ErrorText(e.err)
    ELSE IF Len(e.errs) = 1 THEN ErrorText(e.errs[1])
    ELSE ErrorText(e.errs[1]) \o "\n" \o ErrorText([e EXCEPT !.errs = Tail(@)])

\* a setReturnErr that joins the later errors instead of logging them
LogSetReturnErrBodyJoins(t) ==
    /\ pc[t] = "locked"
    /\ m = t
    /\ rerr' = SetReturnErr(rerr, arg[t])
    /\ recorded' = Append(recorded, arg[t])
    /\ m' = "none"
    /\ pc' = [pc EXCEPT ![t] = ret[t]]
    /\ UNCHANGED <<arg, ret, serveQuit, ctxDone, startRet, stopRet, shutdown,
                   hpc, recv, arm, stopCalls, startRetCtx, startRetStop,
                   result>>
    /\ UNCHANGED runVars

\* the body of setReturnErr and the deferred m.Unlock()
LogSetReturnErrBody(t) ==
    /\ pc[t] = "locked"
    /\ m = t
    /\ rerr' = IF rerr = Nil THEN arg[t] ELSE rerr
    /\ logged' = IF rerr # Nil /\ arg[t] # Nil
                   THEN Append(logged, ErrorText(arg[t]))
                   ELSE logged
    /\ recorded' = Append(recorded, arg[t])
    /\ m' = "none"
    /\ pc' = [pc EXCEPT ![t] = ret[t]]
    /\ UNCHANGED <<arg, ret, serveQuit, ctxDone, startRet, stopRet, shutdown,
                   hpc, recv, arm, stopCalls, startRetCtx, startRetStop,
                   result>>
    /\ UNCHANGED <<utilVars, ctxCause, cfg, installed, lopen, listenFails,
                   stopKind, srvState, srvCalls, stopPc, deadline, pv, now>>

InitLog ==
    /\ Init
    /\ shutdown = "nil"

NextLog ==
    \/ Launch
    \/ StartReturns
    \/ CloseServeQuit
    \/ \E t \in Threads : SetReturnErrLock(t)
    \/ \E t \in Threads : LogSetReturnErrBody(t)
    \/ Cancel
    \/ SelectServeQuit
    \/ SelectCtx
    \/ StopInvoke
    \/ StopReturn
    \/ FinalWait

SpecLog == InitLog /\ [][NextLog]_vars

----------------------------------------------------------------------------
\* ListenForQuitSignal (util.go)

\* errors.New("received quit signal")
ErrReceivedQuitSignal == [k |-> "leaf", id |-> "received quit signal"]

\* signal numbers: syscall.SIGHUP, os.Interrupt, syscall.SIGTERM
SIGHUP == 1

SIGINT == 2

SIGTERM == 15

\* the signals the process may be sent
Signals == {SIGHUP, SIGINT, SIGTERM}

\* String() of a signal
SignalText(s) ==
    IF s = SIGHUP THEN "hangup"
    ELSE IF s = SIGINT THEN "interrupt"
    ELSE "terminated"

\* signal.Notify without the default: with no signal given it relays all
ListenedNoDefault(sig) == IF sig = {} THEN Signals ELSE sig

\* the signals relayed to c: the sig parameter, os.Interrupt and
\* syscall.SIGTERM when it is empty
Listened(sig) == IF sig = {} THEN {SIGINT, SIGTERM} ELSE sig

\* the state of runServer and Run while they are not called
NotRunning ==
    /\ pc = [t \in Threads |-> "idle"]
    /\ arg = [t \in Threads |-> Nil]
    /\ ret = [t \in Threads |-> "none"]
    /\ m = "none"
    /\ rerr = Nil
    /\ serveQuit = FALSE
    /\ startRet = Nil
    /\ stopRet = Nil
    /\ shutdown = "nil"
    /\ hpc = [h \in Handlers |-> "idle"]
    /\ recv = Nil
    /\ arm = "none"
    /\ stopCalls = 0
    /\ recorded = <<>>
    /\ startRetCtx = FALSE
    /\ startRetStop = FALSE
    /\ result = Nil
    /\ ctxCause = Nil
    /\ cfg = BareCfg
    /\ listenFails = FALSE
    /\ RunIdle

InitSig ==
    /\ NotRunning
    /\ DelayIdle
    /\ ctxDone = FALSE
    /\ qpc = "start"
    /\ qsig \in SUBSET Signals
    /\ qchan = NoSignal
    /\ qseen = {}
    /\ qres = Nil

\* everything but the state of ListenForQuitSignal and ctx
sigRest == <<pc, arg, ret, m, rerr, serveQuit, startRet, stopRet, shutdown,
             hpc, recv, arm, stopCalls, recorded, startRetCtx, startRetStop,
             result, ctxCause, cfg, installed, lopen, listenFails, stopKind,
             srvState, srvCalls, stopPc, deadline, pv, now, logged, inDone,
             dpc, delay, dwake>>

\* c := make(chan os.Signal, 1); signal.Notify(c, sig...)
QuitNotify ==
    /\ qpc = "start"
    /\ qpc' = "select"
    /\ UNCHANGED <<qsig, qchan, qseen, qres, ctxDone, sigRest>>

\* the process is sent signal s: it is relayed to c when c is registered
\* for it and has room, and dropped otherwise
SignalArrives(s) ==
    /\ s \notin qseen
    /\ qseen' = qseen \cup {s}
    /\ qchan' = IF qpc = "select" /\ s \in Listened(qsig) /\ qchan = NoSignal
                  THEN s ELSE qchan
    /\ UNCHANGED <<qpc, qsig, qres, ctxDone, sigRest>>

\* case <-ctx.Done(): return ctx.Err(), and the deferred signal.Stop(c)
QuitSelectCtx ==
    /\ qpc = "select"
    /\ ctxDone
    /\ qres' = ContextCanceled
    /\ qpc' = "returned"
    /\ UNCHANGED <<qsig, qchan, qseen, ctxDone, sigRest>>

\* case s := <-c: return fmt.Errorf("%s: %w", s, ErrReceivedQuitSignal),
\* and the deferred signal.Stop(c)
QuitSelectSignal ==
    /\ qpc = "select"
    /\ qchan # NoSignal
    /\ qres' = Errorf(SignalText(qchan), ErrReceivedQuitSignal)
    /\ qchan' = NoSignal
    /\ qpc' = "returned"
    /\ UNCHANGED <<qsig, qseen, ctxDone, sigRest>>

NextSig ==
    \/ QuitNotify
    \/ \E s \in Signals : SignalArrives(s)
    \/ Cancel
    \/ QuitSelectCtx
    \/ QuitSelectSignal

SpecSig == InitSig /\ [][NextSig]_vars

----------------------------------------------------------------------------
\* delayedCancel and run of the sddelay example (conf.go): Run is given the
\* context delayedCancel returns, a listener and no other parameter

\* the largest delay a configuration carries
MaxDelay == 2

\* serverConf as run builds it: Listener, no ShutdownTimeout, no
\* ShutdownOnPanic
ExampleCfg == [handler |-> TRUE, addr |-> FALSE, l |-> TRUE, shutdownTO |-> 0,
               dieOnPanic |-> FALSE]

InitDelay ==
    /\ pc = [t \in Threads |-> IF t = "main" THEN "run" ELSE "idle"]
    /\ arg = [t \in Threads |-> Nil]
    /\ ret = [t \in Threads |-> "none"]
    /\ m = "none"
    /\ rerr = Nil
    /\ serveQuit = FALSE
    /\ ctxDone = FALSE
    /\ startRet = Nil
    /\ stopRet = Nil
    /\ shutdown = "nil"
    /\ hpc = [h \in Handlers |-> "idle"]
    /\ recv = Nil
    /\ arm = "none"
    /\ stopCalls = 0
    /\ recorded = <<>>
    /\ startRetCtx = FALSE
    /\ startRetStop = FALSE
    /\ result = Nil
    /\ ctxCause = Nil
    /\ cfg = ExampleCfg
    /\ listenFails = FALSE
    /\ RunIdle
    /\ SigIdle
    /\ inDone = FALSE
    /\ dpc = "wait"
    /\ delay \in 0..MaxDelay
    /\ dwake = -1

\* everything but the contexts, the clock and the state of delayedCancel
delayRest == <<pc, arg, ret, m, rerr, serveQuit, startRet, stopRet, shutdown,
               hpc, recv, arm, stopCalls, recorded, startRetCtx, startRetStop,
               result, ctxCause, cfg, installed, lopen, listenFails, stopKind,
               srvState, srvCalls, stopPc, deadline, pv, logged, qpc, qsig,
               qchan, qseen, qres>>

\* the input context of delayedCancel is cancelled
InputCancel ==
    /\ dpc # "idle"
    /\ ~inDone
    /\ inDone' = TRUE
    /\ UNCHANGED <<ctxDone, dpc, delay, dwake, now, delayRest>>

\* <-ctx.Done() returns and onDelay() is called
OnDelayCall ==
    /\ dpc = "wait"
    /\ inDone
    /\ dpc' = "onDelay"
    /\ UNCHANGED <<ctxDone, inDone, delay, dwake, now, delayRest>>

\* onDelay() returns and time.Sleep(delay) starts
OnDelayReturn ==
    /\ dpc = "onDelay"
    /\ dpc' = "sleep"
    /\ dwake' = now + delay
    /\ UNCHANGED <<ctxDone, inDone, delay, now, delayRest>>

\* time passes while the callback runs and while the goroutine sleeps
DelayTick ==
    /\ \/ dpc = "onDelay" /\ now < MaxTime
       \/ dpc = "sleep" /\ now < dwake
    /\ now' = now + 1
    /\ UNCHANGED <<ctxDone, inDone, dpc, delay, dwake, delayRest>>

\* the deferred cancel() running without the sleep being over
DelayedCancelFireEarly ==
    /\ dpc = "sleep"
    /\ ctxDone' = TRUE
    /\ dpc' = "done"
    /\ UNCHANGED <<inDone, delay, dwake, now, delayRest>>

\* time.Sleep(delay) returns and the deferred cancel() cancels the context
\* delayedCancel returned
DelayedCancelFire ==
    /\ dpc = "sleep"
    /\ now >= dwake
    /\ ctxDone' = TRUE
    /\ dpc' = "done"
    /\ UNCHANGED <<inDone, delay, dwake, now, delayRest>>

NextDelay ==
    \/ RunSetup
    \/ Launch
    \/ ServeBegin
    \/ ServeReturns
    \/ CloseServeQuit
    \/ \E t \in Threads : SetReturnErrLock(t)
    \/ \E t \in Threads : SetReturnErrBody(t)
    \/ \E h \in Handlers : Request(h)
    \/ \E h \in Handlers : HandlerReturn(h)
    \/ \E h \in Handlers : HandlerPanic(h)
    \/ SelectCtx
    \/ StopInvoke
    \/ StopClose
    \/ StopFuncReturns
    \/ FinalWait
    \/ InputCancel
    \/ OnDelayCall
    \/ OnDelayReturn
    \/ DelayTick
    \/ DelayedCancelFire

SpecDelay == InitDelay /\ [][NextDelay]_vars

\* the steps of the goroutine of delayedCancel
DelayStep ==
    \/ OnDelayCall
    \/ OnDelayReturn
    \/ DelayedCancelFire

\* the scheduler runs every goroutine that can take a step, the callback
\* returns, and time passes; the input context is up to the caller
LiveDelay ==
    /\ SpecDelay
    /\ WF_vars(MainStep)
    /\ WF_vars(ServeStep)
    /\ WF_vars(DelayStep)
    /\ WF_vars(DelayTick)

Returned == pc["main"] = "returned"


RECURSIVE Primary(_)
\* the first recorded cause of a composite: the leftmost operand of the joins
Primary(e) == IF e.k = "join" THEN Primary(e.errs[1]) ELSE e

\* the error the serve goroutine records for start's return value
ExitErr == Errorf(ExitMsg, startRet)

----------------------------------------------------------------------------
\* C1: the error runServer returns is never nil, whatever start and stop
\* return and however cancellation and escalation are timed.
C1_ResultNeverNil == Returned => result # Nil

\* C2: when runServer has returned, the serve goroutine has finished and
\* serveQuit is closed, on every path through the select.
C2_ReturnAfterServeDone == Returned => (serveQuit /\ pc["serve"] = "done")

C2_Witness ==
    /\ Returned
    /\ arm = "ctx"
    /\ startRetStop
    /\ pc["serve"] = "done"

\* C3: stop is invoked at most once in a run, whatever triggers occur and
\* whether or not stop fails.
C3_StopAtMostOnce == stopCalls <= 1

C3_Witness ==
    /\ Returned
    /\ stopCalls = 1
    /\ stopRet # Nil
    /\ arm = "serveQuit"
    /\ ctxDone
    /\ shutdown = "chan"
    /\ \E h \in Handlers : hpc[h] = "sending"

\* C4: if ctx was cancelled while start was still running, the returned
\* error matches context.Canceled.
C4_CancelledWhileServingIsCanceled ==
    (Returned /\ startRetCtx) => Is(result, ContextCanceled)

\* C5: every non-nil error passed to setReturnErr, and the cause it wraps,
\* is found by errors.Is in the returned error; in particular after the
\* cancellation arm with failing start and stop the result matches
\* context.Canceled, start's error and stop's error.
C5_RecordedErrorsDiscoverable ==
    Returned =>
        /\ \A i \in DOMAIN recorded :
              recorded[i] # Nil =>
                 /\ Is(result, recorded[i])
                 /\ recorded[i].k = "wrap" => Is(result, recorded[i].err)
        /\ (arm = "ctx" /\ startRet = ErrStart /\ stopRet = ErrStop) =>
              /\ Is(result, ContextCanceled)
              /\ Is(result, ErrStart)
              /\ Is(result, ErrStop)

C5_Witness ==
    /\ Returned
    /\ arm = "ctx"
    /\ startRet = ErrStart
    /\ stopRet = ErrStop
    /\ Len(recorded) = 3

\* C6: after the cancellation arm, with stop returning nil and start
\* returning http.ErrServerClosed after stop was invoked, the result is
\* exactly ctx.Err().
C6_CancelCleanExit ==
    (Returned /\ arm = "ctx" /\ stopRet = Nil /\ startRet = ErrServerClosed
        /\ startRetStop)
    => result = ContextCanceled

C6_Witness ==
    /\ Returned
    /\ arm = "ctx"
    /\ stopRet = Nil
    /\ startRet = ErrServerClosed
    /\ startRetStop
    /\ recorded = <<ContextCanceled>>

\* C7: once the escalation arm is taken stop is never invoked, also when the
\* scope is cancelled afterwards.
C7_EscalationNeverStops == arm = "shutdown" => stopCalls = 0

C7_Witness ==
    /\ Returned
    /\ arm = "shutdown"
    /\ ctxDone
    /\ stopCalls = 0

\* C8 as stated: after delivery of E under an uncancelled scope, E is the
\* first recorded cause of the returned composite.
C8_EscalationAlwaysPrimary ==
    (Returned /\ arm = "shutdown" /\ ~ctxDone) => Primary(result) = recv

\* C8 amended: after delivery of E under an uncancelled scope, E is found in
\* the result; the result is exactly E when start returns the sentinel, and
\* otherwise it joins E and the serve task's exit error in the order in
\* which they were recorded, E being primary exactly when it came first.
C8_EscalationRecorded ==
    (Returned /\ arm = "shutdown" /\ ~ctxDone) =>
        /\ Is(result, recv)
        /\ IF startRet = ErrServerClosed
             THEN result = recv
             ELSE \/ /\ recorded = <<recv, ExitErr>>
                     /\ result = Join(recv, ExitErr)
                     /\ Primary(result) = recv
                  \/ /\ recorded = <<ExitErr, recv>>
                     /\ result = Join(ExitErr, recv)
                     /\ Primary(result) = ExitErr

C8_Witness ==
    /\ Returned
    /\ arm = "shutdown"
    /\ ~ctxDone
    /\ startRet = ErrStart
    /\ Primary(result) = recv

\* C9: a run whose select did not take the escalation arm has invoked stop
\* exactly once when it returns; when the completion arm was taken after
\* start failed, the failure is the primary cause and, stop returning nil,
\* the whole result.
C9_StopExactlyOnce ==
    (Returned /\ arm # "shutdown") =>
        /\ stopCalls = 1
        /\ (arm = "serveQuit" /\ ~IsSentinel(startRet)) =>
              /\ Primary(result) = ExitErr
              /\ stopRet = Nil => result = ExitErr

C9_Witness ==
    /\ Returned
    /\ arm = "serveQuit"
    /\ ~ctxDone
    /\ startRet = ErrStart
    /\ stopRet = Nil
    /\ stopCalls = 1
    /\ result = Errorf(ExitMsg, ErrStart)

\* C10 as stated: when the select observes the completion of the serve task
\* first, stop is not invoked.
C10_CompletionArmSkipsStop == arm = "serveQuit" => stopCalls = 0

\* C10 amended: when the select observes the completion of the serve task
\* first, the coordinator goes on to invoke stop, once, and only then
\* reaches the final wait.
C10_CompletionArmStops ==
    arm = "serveQuit" =>
        IF pc["main"] = "stop" THEN stopCalls = 0
        ELSE /\ stopCalls = 1
             /\ pc["main"] \in {"stopping", "setReturnErr", "locked", "wait",
                                "returned"}

C10_Witness ==
    /\ Returned
    /\ arm = "serveQuit"
    /\ stopCalls = 1
    /\ ~ctxDone
    /\ \A h \in Handlers : hpc[h] = "idle"

\* the elements of a sequence
Range(q) == {q[i] : i \in DOMAIN q}

\* the error the coordinator records for stop's return value, Nil for none
StopErr == IF stopRet = Nil THEN Nil ELSE Errorf(StopMsg, stopRet)

\* the serve task ended on its own: completion arm, no cancellation, no
\* escalation attempted
EndedOnItsOwn ==
    /\ Returned
    /\ arm = "serveQuit"
    /\ ~ctxDone
    /\ \A h \in Handlers : hpc[h] = "idle"

\* C11 as stated: when the serve task ends on its own, no stop error is part
\* of the returned error.
C11_NoStopErrorWhenEndedOnItsOwn ==
    EndedOnItsOwn =>
        \A i \in DOMAIN recorded :
            ~(recorded[i].k = "wrap" /\ recorded[i].msg = StopMsg)

\* C11 amended: when the serve task ends on its own, stop is still invoked
\* once; the result is the serve task's exit error (if start did not return
\* the sentinel) joined with 'stopping http server: <err>' (if stop failed),
\* in this order, and nothing else.
C11_EndedOnItsOwnResult ==
    EndedOnItsOwn =>
        /\ stopCalls = 1
        /\ result = IF IsSentinel(startRet) THEN StopErr
                    ELSE IF stopRet = Nil THEN ExitErr
                    ELSE Join(ExitErr, StopErr)

C11_Witness ==
    /\ EndedOnItsOwn
    /\ startRet = ErrStart
    /\ stopRet = ErrStop
    /\ result = Join(Errorf(ExitMsg, ErrStart), Errorf(StopMsg, ErrStop))

\* C12: when cancellation and an escalation are both pending at the select,
\* one arm is taken: the cancellation arm records ctx.Err() and leaves the
\* value unreceived, the escalation arm receives and records the value; a
\* run never does both, and only the cancellation arm leads to stop.
C12_ExactlyOneArm ==
    /\ [](/\ arm = "ctx" =>
               /\ recv = Nil
               /\ \A h \in Handlers : hpc[h] # "sent"
               /\ \A e \in Range(recorded) : e.k # "esc"
          /\ arm = "shutdown" =>
               /\ stopCalls = 0
               /\ ContextCanceled \notin Range(recorded)
          /\ (Returned /\ arm = "ctx") =>
               /\ stopCalls = 1
               /\ ContextCanceled \in Range(recorded)
          /\ (Returned /\ arm = "shutdown") => recv \in Range(recorded))
    /\ [][(/\ pc["main"] = "select"
           /\ pc'["main"] # "select"
           /\ ctxDone
           /\ shutdown = "chan"
           /\ \E h \in Handlers : hpc[h] = "sending")
          =>
          \/ /\ arm' = "ctx"
             /\ hpc' = hpc
             /\ recv' = Nil
             /\ arg'["main"] = ContextCanceled
             /\ ret'["main"] = "stop"
          \/ /\ arm' = "shutdown"
             /\ \E h \in Handlers :
                   /\ hpc[h] = "sending"
                   /\ hpc' = [hpc EXCEPT ![h] = "sent"]
                   /\ recv' = EscErr(h)
                   /\ arg'["main"] = EscErr(h)
             /\ ret'["main"] = "waitQuit"
          \/ /\ arm' = "serveQuit"
             /\ serveQuit
             /\ hpc' = hpc
             /\ recv' = Nil]_vars

C12_Witness ==
    /\ Returned
    /\ arm = "ctx"
    /\ stopCalls = 1
    /\ shutdown = "chan"
    /\ recv = Nil
    /\ \E h \in Handlers : hpc[h] = "sending"

\* C20 as stated: after the cancellation arm, a custom cause the scope was
\* cancelled with is found in the result.
C20_CauseDiscoverable ==
    (Returned /\ arm = "ctx" /\ ctxCause # Nil) => Is(result, ctxCause)

\* C20 amended: the cancellation arm records ctx.Err(), that is
\* context.Canceled, and not the cause: the result matches context.Canceled,
\* and a custom cause is neither recorded nor found in the result.
C20_CancelRecordsCtxErr ==
    (Returned /\ arm = "ctx") =>
        /\ Is(result, ContextCanceled)
        /\ ContextCanceled \in Range(recorded)
        /\ ctxCause # Nil =>
              /\ ctxCause \notin Range(recorded)
              /\ ~Is(result, ctxCause)

C20_Witness ==
    /\ Returned
    /\ arm = "ctx"
    /\ ctxCause = ErrCause
    /\ result = ContextCanceled

RECURSIVE PanicText(_)
\* a panic value formatted with %v
PanicText(v) ==
    IF v.k = "wrap" THEN v.msg \o ": " \o PanicText(v.err) ELSE v.id

\* Error() of the value the coordinator received from handler e.n: the
\* fmt.Errorf("unhandled panic: %v", r) of the recover function
EscText(e) == "unhandled panic: " \o PanicText(pv[e.n])

\* the configuration does not pass cfg.validate()
InvalidCfg == ~cfg.handler \/ (~cfg.addr /\ ~cfg.l)

\* C13: with a shutdown timeout D > 0, the scope cancelled and a handler
\* busy throughout the shutdown, Run returns no earlier than D after the
\* stop closure started, with context.Canceled joined by 'stopping http
\* server: context deadline exceeded'.
C13_ShutdownTimeoutRespected ==
    (/\ Returned
     /\ ~InvalidCfg
     /\ cfg.shutdownTO > 0
     /\ ctxDone
     /\ arm # "shutdown"
     /\ \E h \in Handlers : hpc[h] = "busy")
    =>
    /\ now >= deadline
    /\ deadline >= cfg.shutdownTO
    /\ result = Join(ContextCanceled, Errorf(StopMsg, DeadlineExceeded))
    /\ Primary(result) = ContextCanceled
    /\ Is(result, DeadlineExceeded)

C13_Witness ==
    /\ Returned
    /\ cfg.shutdownTO = MaxTimeout
    /\ ctxDone
    /\ arm = "ctx"
    /\ \E h \in Handlers : hpc[h] = "busy"
    /\ now = deadline
    /\ Is(result, DeadlineExceeded)

\* C14: the stop closure is chosen from the configured timeout T: Close for
\* T <= 0, Shutdown with a deadline T after its start for T > 0; stop calls
\* the chosen method only, and the choice never changes.
C14_StopStrategy ==
    LET chosen == IF cfg.shutdownTO <= 0 THEN "Close" ELSE "Shutdown"
        byStop == {i \in DOMAIN srvCalls : srvCalls[i].by = "stop"}
    IN  /\ stopKind \in {"none", chosen}
        /\ pc["main"] \notin {"run", "returned"} => stopKind = chosen
        /\ \A i \in byStop : srvCalls[i].m = chosen
        /\ Cardinality(byStop) = IF stopPc = "idle" THEN 0 ELSE 1
        /\ stopPc = "draining" => chosen = "Shutdown"
        /\ deadline # -1 =>
              /\ chosen = "Shutdown"
              /\ deadline - cfg.shutdownTO \in 0..now
        /\ stopRet = DeadlineExceeded => (chosen = "Shutdown" /\ now >= deadline)

C14_Witness ==
    /\ Returned
    /\ cfg.shutdownTO = 0
    /\ srvCalls = <<[by |-> "stop", m |-> "Close"]>>
    /\ \E h \in Handlers : hpc[h] = "busy"

\* C15: with an invalid configuration Run returns the configuration error
\* at once: no serve goroutine, no listener, no stop, no panic handler.
C15_InvalidConfigRejected ==
    InvalidCfg =>
        /\ pc["main"] \in {"run", "returned"}
        /\ pc["serve"] = "idle"
        /\ ~lopen
        /\ ~installed
        /\ shutdown = "nil"
        /\ stopCalls = 0
        /\ srvState = "new"
        /\ srvCalls = <<>>
        /\ Returned =>
              result = IF ~cfg.handler THEN errUnassignedHandler
                       ELSE errUnassignedAddr

C15_Witness ==
    /\ Returned
    /\ cfg.handler
    /\ ~cfg.addr
    /\ ~cfg.l
    /\ cfg.dieOnPanic
    /\ ~ctxDone
    /\ result = errUnassignedAddr

\* C16: with the panic handler installed and the scope never cancelled, a
\* handler panic other than http.ErrAbortHandler makes Run return, and the
\* result is the 'unhandled panic: <value>' error of a panicking handler.
C16_PanicStopsRun ==
    /\ [](( /\ Returned
            /\ ~ctxDone
            /\ installed
            /\ \E h \in Handlers : hpc[h] \in {"sending", "sent", "closed"})
          =>
          /\ arm = "shutdown"
          /\ Primary(result) = recv
          /\ result = recv
          /\ recv.k = "esc"
          /\ pv[recv.n] \in PanicValues \ {ErrAbortHandler}
          /\ pv[recv.n] = PanicStr => EscText(recv) = "unhandled panic: foobar")
    /\ [](( /\ installed
            /\ \E h \in Handlers :
                  hpc[h] = "sending" /\ pv[h] # ErrAbortHandler)
          => <>(Returned \/ ctxDone))

C16_Witness ==
    /\ Returned
    /\ ~ctxDone
    /\ installed
    /\ arm = "shutdown"
    /\ \E h \in Handlers :
          /\ hpc[h] = "closed"
          /\ pv[h] = PanicStr
          /\ result = EscErr(h)

\* C17: with the panic handler installed, a panic with http.ErrAbortHandler
\* sends nothing and closes nothing; when no other panic occurs the server
\* is closed by stop only, and Run returns only after the scope was
\* cancelled, with context.Canceled.
C17_AbortPanicIgnored ==
    LET onlyAborts ==
            /\ installed
            /\ \E h \in Handlers : pv[h] = ErrAbortHandler
            /\ \A h \in Handlers : pv[h] \in {Nil, ErrAbortHandler}
    IN  /\ \A h \in Handlers :
              (installed /\ pv[h] = ErrAbortHandler) =>
                  hpc[h] = "aborted"
        /\ onlyAborts =>
              /\ \A i \in DOMAIN srvCalls : srvCalls[i].by = "stop"
              /\ srvState = "closed" => (ctxDone /\ stopCalls = 1)
              /\ Returned =>
                    /\ ctxDone
                    /\ arm = "ctx"
                    /\ Primary(result) = ContextCanceled
                    /\ Is(result, ContextCanceled)

C17_Witness ==
    /\ Returned
    /\ installed
    /\ hpc[1] = "aborted"
    /\ \E h \in Handlers : hpc[h] = "done"
    /\ result = ContextCanceled

\* C18: with the panic handler installed, a panic with an error that wraps
\* http.ErrAbortHandler is treated like http.ErrAbortHandler: nothing is
\* sent and the server is not closed by the handler.
C18_WrappedAbortIgnored ==
    \A h \in Handlers :
        (installed /\ pv[h] = WrappedAbort) =>
            hpc[h] = "aborted"

\* C19: without ShutdownOnPanic the channel is nil, no handler sends on it,
\* the escalation arm is never taken, no panic closes the server, and a
\* run ends through the completion or the cancellation arm.
C19_NoPanicHandlerNoEscalation ==
    ~cfg.dieOnPanic =>
        /\ shutdown = "nil"
        /\ ~installed
        /\ arm # "shutdown"
        /\ recv = Nil
        /\ \A h \in Handlers :
              hpc[h] \in {"idle", "busy", "done", "crashed"}
        /\ \A i \in DOMAIN srvCalls : srvCalls[i].by = "stop"
        /\ srvState = "closed" => stopCalls = 1
        /\ (Returned /\ ~InvalidCfg) => arm \in {"serveQuit", "ctx"}

C19_Witness ==
    /\ Returned
    /\ ~cfg.dieOnPanic
    /\ arm = "ctx"
    /\ \E h \in Handlers : hpc[h] = "crashed" /\ pv[h] = PanicStr

\* C21 as stated: when the cancellation races with an error of the serve
\* task, the arm the select takes decides the primary error: the scope's
\* error after the cancellation arm, the serve task's error after the
\* completion arm.
C21_SelectArmDecidesPrimary ==
    (Returned /\ ctxDone /\ ~IsSentinel(startRet)) =>
        /\ arm = "ctx" => Primary(result) = ContextCanceled
        /\ arm = "serveQuit" => Primary(result) = ExitErr

\* C21 amended: the primary error is the argument of the setReturnErr call
\* that took the mutex first. After the completion arm that is the serve
\* task's error. After the cancellation arm it is the scope's error or the
\* serve task's error: the serve goroutine may have recorded its error
\* before the coordinator records ctx.Err(), while serveQuit is still open.
C21_FirstRecordedIsPrimary ==
    (Returned /\ ctxDone /\ ~IsSentinel(startRet)) =>
        /\ recorded # <<>>
        /\ Primary(result) = recorded[1]
        /\ arm = "serveQuit" => recorded[1] = ExitErr
        /\ arm = "ctx" =>
              /\ recorded[1] \in {ContextCanceled, ExitErr}
              /\ {ContextCanceled, ExitErr} \subseteq Range(recorded)

C21_Witness ==
    /\ Returned
    /\ arm = "ctx"
    /\ startRet = ErrStart
    /\ Primary(result) = Errorf(ExitMsg, ErrStart)
    /\ Is(result, ContextCanceled)

\* C22: once the scope is cancelled Run returns, under the fairness of the
\* scheduler: the server stopped by the coordinator (or closed by a panic
\* handler) makes the serve task exit, for srv.Close and for srv.Shutdown,
\* whether Shutdown returns nil or its deadline error.
C22_CancelLeadsToReturn == ctxDone ~> Returned

C22_Witness ==
    /\ Returned
    /\ ctxDone
    /\ arm = "ctx"
    /\ stopKind = "Shutdown"
    /\ stopRet = DeadlineExceeded
    /\ startRetStop
    /\ Is(result, DeadlineExceeded)

\* the non-nil elements of a sequence of errors
NonNil(q) == SelectSeq(q, LAMBDA e : e # Nil)

\* C23: in the variant that logs, the result is the first non-nil error
\* passed to setReturnErr; every later non-nil error is logged once, in the
\* order of the calls, and is not part of the result. After the
\* cancellation arm with start returning http.ErrServerClosed and stop
\* failing, the result is exactly context.Canceled and the log holds
\* 'stopping http server: <err>'.
C23_FirstReturnedRestLogged ==
    LET errs == NonNil(recorded)
    IN  /\ rerr = IF errs = <<>> THEN Nil ELSE errs[1]
        /\ rerr.k # "join"
        /\ Len(logged) = IF errs = <<>> THEN 0 ELSE Len(errs) - 1
        /\ \A i \in DOMAIN logged : logged[i] = ErrorText(errs[i + 1])
        /\ Returned =>
              /\ result = rerr
              /\ (arm = "ctx" /\ IsSentinel(startRet) /\ stopRet = ErrStop) =>
                    /\ result = ContextCanceled
                    /\ logged = <<"stopping http server: error from stop">>

C23_Witness ==
    /\ Returned
    /\ arm = "ctx"
    /\ IsSentinel(startRet)
    /\ stopRet = ErrStop
    /\ result = ContextCanceled
    /\ logged = <<"stopping http server: error from stop">>

\* C24: in the variant that logs, after the cancellation arm with start
\* failing once the scope is cancelled and stop failing, the result is
\* context.Canceled and the log holds stop's error and then the serve
\* task's exit error.
C24_CanceledThenStopThenExit ==
    (Returned /\ arm = "ctx" /\ startRetCtx /\ startRet = ErrStart
        /\ stopRet = ErrStop)
    =>
    /\ result = ContextCanceled
    /\ logged = <<"stopping http server: error from stop",
                  "http server exited with error: error from start">>

\* C25: the deadline of a graceful stop is set when the stop closure starts,
\* to the time of that moment plus the configured timeout, whatever time has
\* passed before and although the scope may be cancelled; it never moves,
\* the cancellation of the scope does not touch the shutdown, and
\* srv.Shutdown fails with the deadline error no earlier than the deadline.
C25_FreshDeadline ==
    /\ []((stopPc = "done" /\ stopRet = DeadlineExceeded) =>
              (cfg.shutdownTO > 0 /\ now >= deadline))
    /\ [][/\ (stopPc = "idle" /\ stopPc' = "draining") =>
                 (now' = now /\ deadline' = now + cfg.shutdownTO)
          /\ stopPc = "draining" => deadline' = deadline
          /\ (stopPc = "draining" /\ stopPc' = "done"
                 /\ stopRet' = DeadlineExceeded) => now >= deadline
          /\ ctxDone' # ctxDone =>
                 (stopPc' = stopPc /\ stopRet' = stopRet
                     /\ deadline' = deadline)]_vars

C25_Witness ==
    /\ Returned
    /\ arm = "ctx"
    /\ cfg.shutdownTO = MaxTimeout
    /\ deadline = MaxTime + MaxTimeout
    /\ now = deadline
    /\ stopRet = DeadlineExceeded

\* the serve goroutine is past its test of start's return value
ServeClassified == pc["serve"] \in {"setReturnErr", "locked", "close", "done"}

\* C26: start's return value is compared with http.ErrServerClosed by
\* identity: for exactly that value the serve goroutine records nothing;
\* for every other value, nil and an error wrapping the sentinel included,
\* it records the non-nil error 'http server exited with error: <err>',
\* once.
C26_SentinelByIdentity ==
    /\ ExitErr # Nil
    /\ ErrorText(ExitErr) =
          "http server exited with error: " \o
             (IF startRet = Nil THEN "%!w(<nil>)" ELSE ErrorText(startRet))
    /\ startRet # Nil => Is(ExitErr, startRet)
    /\ (ServeClassified /\ startRet = ErrServerClosed) =>
          /\ pc["serve"] \in {"close", "done"}
          /\ ExitErr \notin Range(recorded)
    /\ (ServeClassified /\ startRet # ErrServerClosed) =>
          IF pc["serve"] \in {"close", "done"}
            THEN Cardinality({i \in DOMAIN recorded : recorded[i] = ExitErr}) = 1
            ELSE arg["serve"] = ExitErr /\ ExitErr \notin Range(recorded)
    /\ (Returned /\ startRet # ErrServerClosed) => Is(result, ExitErr)

C26_Witness ==
    /\ Returned
    /\ startRet = Nil
    /\ stopRet = Nil
    /\ arm = "serveQuit"
    /\ result = [k |-> "leaf", id |-> "http server exited with error: %!w(<nil>)"]

\* C27: serveQuit is closed only after the serve task's exit error has been
\* recorded: whenever serveQuit is closed and start returned something else
\* than the sentinel, rerr holds the wrapped error, and so does the value
\* runServer returns.
C27_RecordedBeforeCompletion ==
    (serveQuit /\ ~IsSentinel(startRet)) =>
        /\ ExitErr \in Range(recorded)
        /\ Is(rerr, ExitErr)
        /\ Returned => Is(result, ExitErr)

C27_Witness ==
    /\ serveQuit
    /\ pc["main"] = "select"
    /\ ctxDone
    /\ startRet = ErrStart
    /\ rerr = Errorf(ExitMsg, ErrStart)

\* C28: stop is invoked only after a trigger: whenever the coordinator is
\* past its select on the way to stop, or stop has been invoked, the select
\* took the completion arm with serveQuit closed or the cancellation arm
\* with ctx cancelled; stop is never invoked while the serve task runs
\* under an uncancelled scope.
C28_StopOnlyAfterTrigger ==
    /\ (stopCalls > 0 \/ pc["main"] = "stop") =>
          /\ serveQuit \/ ctxDone
          /\ arm = "serveQuit" => serveQuit
          /\ arm = "ctx" => ctxDone
          /\ arm \in {"serveQuit", "ctx"}
    /\ (pc["serve"] \in {"idle", "running"} /\ ~ctxDone) => stopCalls = 0

C28_Witness ==
    /\ stopCalls = 1
    /\ pc["main"] = "stopping"
    /\ pc["serve"] = "running"
    /\ ctxDone
    /\ shutdown = "chan"
    /\ \E h \in Handlers : hpc[h] = "sending"

\* the threads inside the body of setReturnErr
InBody == {t \in Threads : pc[t] = "locked"}

\* C29: the bodies of setReturnErr exclude each other, rerr is written by
\* the serve goroutine and the coordinator only, each while it holds the
\* mutex, and no write happens once runServer has returned: the value
\* returned is the final value of rerr.
C29_WritesExclusiveAndBeforeReturn ==
    /\ [](/\ Cardinality(InBody) <= 1
          /\ \A t \in Threads : pc[t] = "locked" <=> m = t
          /\ Returned =>
                /\ InBody = {}
                /\ m = "none"
                /\ \A t \in Threads : pc[t] \notin {"setReturnErr", "locked"}
                /\ result = rerr)
    /\ [][/\ (rerr' # rerr \/ recorded' # recorded) =>
                 \E t \in Threads :
                    /\ InBody = {t}
                    /\ m = t
                    /\ m' = "none"
                    /\ rerr' = SetReturnErr(rerr, arg[t])
          /\ Returned => (rerr' = rerr /\ recorded' = recorded
                            /\ result' = result)]_vars

C29_Witness ==
    /\ m = "serve"
    /\ pc["serve"] = "locked"
    /\ pc["main"] = "setReturnErr"
    /\ arm = "shutdown"
    /\ rerr = Nil

\* C30: with the panic handler installed, every handler that starts the
\* send of its panic error on the channel completes it and calls
\* srv.Close().
C30_EverySendCompletes ==
    \A h \in Handlers :
        (installed /\ hpc[h] = "sending") ~> (hpc[h] = "closed")

\* the calls of srv.Close and srv.Shutdown made by caller c
CallsBy(c) == {i \in DOMAIN srvCalls : srvCalls[i].by = c}

\* C31: in a run the coordinator's stop and a panic handler's srv.Close are
\* never both executed: a handler calls srv.Close only after the coordinator
\* received its send, at most one handler does, and after the escalation arm
\* the coordinator never invokes stop; the server is torn down by at most
\* one call.
C31_OneTeardown ==
    /\ Len(srvCalls) <= 1
    /\ ~(CallsBy("stop") # {} /\ CallsBy("handler") # {})
    /\ Cardinality({h \in Handlers : hpc[h] \in {"sent", "closed"}}) <= 1
    /\ CallsBy("handler") # {} =>
          /\ installed
          /\ arm = "shutdown"
          /\ stopCalls = 0
          /\ \E h \in Handlers : hpc[h] = "closed" /\ recv = EscErr(h)
    /\ \A h \in Handlers : hpc[h] \in {"sent", "closed"} =>
          (arm = "shutdown" /\ recv = EscErr(h))
    /\ arm = "shutdown" => (stopCalls = 0 /\ CallsBy("stop") = {})
    /\ stopCalls > 0 => \A h \in Handlers : hpc[h] \notin {"sent", "closed"}

C31_Witness ==
    /\ Returned
    /\ installed
    /\ arm = "shutdown"
    /\ ctxDone
    /\ srvCalls = <<[by |-> "handler", m |-> "Close"]>>
    /\ \E h \in Handlers : hpc[h] = "sending"

\* Run returned from its validation step
Rejected == Returned /\ pc["serve"] = "idle" /\ stopKind = "none"

\* Run went past its validation step
Accepted == pc["main"] # "run" /\ stopKind # "none"

\* C32: validation follows a fixed table: errUnassignedHandler whenever the
\* handler is nil, whatever the address and the listener; otherwise
\* errUnassignedAddr exactly when the address is empty and no listener is
\* given; otherwise nil, a listener alone or an address alone being enough.
C32_ValidateTable ==
    /\ ~cfg.handler => Validate(cfg) = errUnassignedHandler
    /\ (cfg.handler /\ ~cfg.addr /\ ~cfg.l) => Validate(cfg) = errUnassignedAddr
    /\ (cfg.handler /\ (cfg.addr \/ cfg.l)) => Validate(cfg) = Nil
    /\ pc["main"] # "run" =>
          /\ ~cfg.handler => (Rejected /\ result = errUnassignedHandler)
          /\ (cfg.handler /\ ~cfg.addr /\ ~cfg.l) =>
                (Rejected /\ result = errUnassignedAddr)
          /\ (cfg.handler /\ (cfg.addr \/ cfg.l)) =>
                (Accepted /\ result \notin {errUnassignedHandler, errUnassignedAddr})
          /\ Rejected <=> ~Accepted

C32_Witness ==
    /\ Rejected
    /\ ~cfg.handler
    /\ ~cfg.addr
    /\ ~cfg.l
    /\ result = errUnassignedHandler

\* C33: ListenForQuitSignal returns only after its context is cancelled or
\* one of the signals it listens for (os.Interrupt and syscall.SIGTERM when
\* none is given) was sent; it returns ctx.Err() in the first case and
\* '<signal>: received quit signal' wrapping ErrReceivedQuitSignal in the
\* second; it never returns nil.
C33_QuitSignalResult ==
    LET listened == IF qsig = {} THEN {SIGINT, SIGTERM} ELSE qsig
    IN  /\ qpc # "returned" => qres = Nil
        /\ qpc = "returned" =>
              /\ qres # Nil
              /\ \/ /\ ctxDone
                    /\ qres = ContextCanceled
                    /\ ~Is(qres, ErrReceivedQuitSignal)
                 \/ \E s \in listened \cap qseen :
                       /\ Is(qres, ErrReceivedQuitSignal)
                       /\ qres # ErrReceivedQuitSignal
                       /\ ErrorText(qres) =
                             SignalText(s) \o ": received quit signal"
        /\ qchan # NoSignal => qchan \in listened \cap qseen

C33_Witness ==
    /\ qpc = "returned"
    /\ qsig = {}
    /\ ctxDone
    /\ qseen = Signals
    /\ ErrorText(qres) = "terminated: received quit signal"

\* C34: the context delayedCancel returns is not cancelled while the input
\* context is not; once the input is cancelled the callback runs, and the
\* context is cancelled only after the callback has returned and the whole
\* delay has passed since then. The server run with it is not stopped
\* before that, and is stopped, Run returning, after it.
C34_DelayedCancel ==
    /\ [](/\ ~inDone => (dpc = "wait" /\ ~ctxDone)
          /\ ctxDone =>
                /\ inDone
                /\ dpc = "done"
                /\ dwake >= delay
                /\ now >= dwake
          /\ (stopCalls > 0 \/ srvState = "closed" \/ Returned) => ctxDone)
    /\ [][/\ (dpc # "sleep" /\ dpc' = "sleep") =>
                 (dpc = "onDelay" /\ dwake' = now + delay /\ now' = now)
          /\ dpc = "sleep" => dwake' = dwake
          /\ delay' = delay
          /\ (~ctxDone /\ ctxDone') => (dpc = "sleep" /\ now >= dwake)]_vars
    /\ (inDone ~> (ctxDone /\ Returned))

C34_Witness ==
    /\ Returned
    /\ ctxDone
    /\ delay = MaxDelay
    /\ dwake = MaxTime + MaxDelay
    /\ now = dwake
    /\ result = ContextCanceled
    /\ \E h \in Handlers : hpc[h] = "done"

====
